---- MODULE Spec2Model ----
(***************************************************************************)
(* Model of the token balance service (class TokenBalanceService):         *)
(* calculateCRC32, toHex, generateAccountId, formatBalance, getTokenInfo   *)
(* with its tokenInfoCache, queryTokenBalance and the constructor.         *)
(*                                                                         *)
(* Conventions.  A JavaScript 32-bit integer is its bit pattern, kept as   *)
(* the pair <<upper 16 bits, lower 16 bits>>.  A bigint is                 *)
(* the sequence of its decimal digits, least significant first, without    *)
(* leading zeros (0n is << >>).  A string is the sequence of its           *)
(* characters, each a one-character string.                                *)
(***************************************************************************)
EXTENDS Integers, Sequences, FiniteSets, TLC

(* ------------------------------ bounds --------------------------------- *)
MaxLen == 3
MaxCalls == 3
MaxQueries == 2
MaxDecimals == 23

\* the function f with domain 1..n as a sequence
Tuple(f) == f \o << >>

(* ------------------------ 32-bit integer operators --------------------- *)
\* a 32-bit value is <<hi, lo>>, its upper and lower 16 bits

Bit(a, i) == (a \div i) % 2

\* bitwise operators on 4-bit values
Xor4(a, b) ==
  ((Bit(a, 1) + Bit(b, 1)) % 2) + 2 * ((Bit(a, 2) + Bit(b, 2)) % 2)
  + 4 * ((Bit(a, 4) + Bit(b, 4)) % 2) + 8 * ((Bit(a, 8) + Bit(b, 8)) % 2)

And4(a, b) ==
  Bit(a, 1) * Bit(b, 1) + 2 * Bit(a, 2) * Bit(b, 2)
  + 4 * Bit(a, 4) * Bit(b, 4) + 8 * Bit(a, 8) * Bit(b, 8)

\* bitwise operators on 16-bit values
Xor16(a, b) ==
  Xor4(a % 16, b % 16) + 16 * Xor4((a \div 16) % 16, (b \div 16) % 16)
  + 256 * Xor4((a \div 256) % 16, (b \div 256) % 16)
  + 4096 * Xor4(a \div 4096, b \div 4096)

And16(a, b) ==
  And4(a % 16, b % 16) + 16 * And4((a \div 16) % 16, (b \div 16) % 16)
  + 256 * And4((a \div 256) % 16, (b \div 256) % 16)
  + 4096 * And4(a \div 4096, b \div 4096)

Pow2 == [n \in 0..16 |-> CASE n = 0 -> 1 [] n = 1 -> 2 [] n = 2 -> 4 [] n = 3 -> 8
                           [] n = 4 -> 16 [] n = 5 -> 32 [] n = 6 -> 64 [] n = 7 -> 128
                           [] n = 8 -> 256 [] n = 9 -> 512 [] n = 10 -> 1024
                           [] n = 11 -> 2048 [] n = 12 -> 4096 [] n = 13 -> 8192
                           [] n = 14 -> 16384 [] n = 15 -> 32768 [] n = 16 -> 65536]

\* ToInt32 of a small non-negative Number (a byte, 0 or 1)
ToInt32(n) == <<0, n>>

\* the 32-bit pattern whose bytes are b[1] (most significant) .. b[4]
Word(b) == <<b[1] * 256 + b[2], b[3] * 256 + b[4]>>

BitXor(a, b) == <<Xor16(a[1], b[1]), Xor16(a[2], b[2])>>
BitAnd(a, b) == <<And16(a[1], b[1]), And16(a[2], b[2])>>
BitNot(a) == <<65535 - a[1], 65535 - a[2]>>

\* a >>> n, 0 <= n <= 31
ShiftRightLogical(a, n) ==
  IF n < 16
  THEN <<a[1] \div Pow2[n], (a[1] % Pow2[n]) * Pow2[16 - n] + (a[2] \div Pow2[n])>>
  ELSE <<0, a[1] \div Pow2[n - 16]>>

\* the n upper bits of a 16-bit value set
UpperOnes(n) == 65536 - Pow2[16 - n]

\* a >> n, 0 <= n <= 31: the sign bit is propagated
ShiftRightArith(a, n) ==
  IF a[1] < 32768 THEN ShiftRightLogical(a, n)
  ELSE IF n < 16
  THEN <<UpperOnes(n) + (a[1] \div Pow2[n]),
         (a[1] % Pow2[n]) * Pow2[16 - n] + (a[2] \div Pow2[n])>>
  ELSE <<65535, UpperOnes(n - 16) + (a[1] \div Pow2[n - 16])>>

\* a + 1 modulo 2^32
Inc32(a) ==
  IF a[2] + 1 < 65536 THEN <<a[1], a[2] + 1>>
  ELSE <<(a[1] + 1) % 65536, 0>>

\* unary minus, two's complement
Neg32(a) == Inc32(BitNot(a))

\* the element of a Uint8Array assigned the 32-bit value a
ToUint8(a) == a[2] % 256

(* ---------------------------- calculateCRC32 --------------------------- *)
AllOnes == Word(<<255, 255, 255, 255>>)
Poly == Word(<<237, 184, 131, 32>>)
ByteMask == Word(<<0, 0, 0, 255>>)
One32 == ToInt32(1)

\* one iteration of the inner loop: crc = (crc >>> 1) ^ (0xedb88320 & -(crc & 1))
CrcShift(crc) ==
  BitXor(ShiftRightLogical(crc, 1), BitAnd(Poly, Neg32(BitAnd(crc, One32))))

\* variant of the iteration with >> in place of >>>
CrcShiftSigned(crc) ==
  BitXor(ShiftRightArith(crc, 1), BitAnd(Poly, Neg32(BitAnd(crc, One32))))

RECURSIVE CrcBits(_, _)
\* for (let i = 0; i < 8; i++) ...
CrcBits(crc, n) ==
  IF crc[1] < 0 \/ n = 0 THEN crc ELSE CrcBits(CrcShift(crc), n - 1)

RECURSIVE CrcBytes(_, _, _, _)
\* for (const byte of data) { crc ^= byte; ... } over data[lo..hi]
CrcBytes(crc, data, lo, hi) ==
  IF crc[1] < 0 \/ lo > hi THEN crc
  ELSE IF lo = hi THEN CrcBits(BitXor(crc, ToInt32(data[lo])), 8)
  ELSE CrcBytes(CrcBytes(crc, data, lo, (lo + hi) \div 2), data, ((lo + hi) \div 2) + 1, hi)

RECURSIVE CrcBitsSigned(_, _)
CrcBitsSigned(crc, n) ==
  IF crc[1] < 0 \/ n = 0 THEN crc ELSE CrcBitsSigned(CrcShiftSigned(crc), n - 1)

RECURSIVE CrcBytesSigned(_, _, _, _)
CrcBytesSigned(crc, data, lo, hi) ==
  IF crc[1] < 0 \/ lo > hi THEN crc
  ELSE IF lo = hi THEN CrcBitsSigned(BitXor(crc, ToInt32(data[lo])), 8)
  ELSE CrcBytesSigned(CrcBytesSigned(crc, data, lo, (lo + hi) \div 2), data,
                      ((lo + hi) \div 2) + 1, hi)

\* buffer[0] = (crc >> 24) & 0xff; ... buffer[3] = crc & 0xff
CrcBuffer(crc) ==
  <<ToUint8(BitAnd(ShiftRightArith(crc, 24), ByteMask)),
    ToUint8(BitAnd(ShiftRightArith(crc, 16), ByteMask)),
    ToUint8(BitAnd(ShiftRightArith(crc, 8), ByteMask)),
    ToUint8(BitAnd(crc, ByteMask))>>

\* variant: the shift is >> (sign-propagating) instead of >>>
calculateCRC32_SignedShift(data) ==
  CrcBuffer(ShiftRightLogical(BitNot(CrcBytesSigned(AllOnes, data, 1, Len(data))), 0))

calculateCRC32(data) ==
  CrcBuffer(ShiftRightLogical(BitNot(CrcBytes(AllOnes, data, 1, Len(data))), 0))

(* -------------------------------- toHex -------------------------------- *)
HexDigits == <<"0", "1", "2", "3", "4", "5", "6", "7",
               "8", "9", "a", "b", "c", "d", "e", "f">>

\* x.toString(16) for a byte x: no leading zeros
ToString16(x) ==
  IF x < 16 THEN <<HexDigits[x + 1]>>
  ELSE <<HexDigits[(x \div 16) + 1], HexDigits[(x % 16) + 1]>>

\* s.slice(-n)
SliceLast(s, n) == IF Len(s) <= n THEN s ELSE SubSeq(s, Len(s) - n + 1, Len(s))

RECURSIVE JoinRange(_, _, _)
JoinRange(parts, lo, hi) ==
  IF lo > hi THEN << >>
  ELSE IF lo = hi THEN parts[lo]
  ELSE JoinRange(parts, lo, (lo + hi) \div 2) \o JoinRange(parts, ((lo + hi) \div 2) + 1, hi)

\* Array.prototype.join("") on an array of strings
Join(parts) == JoinRange(parts, 1, Len(parts))

\* variant: the byte is not zero-padded
toHex_NoPad(buffer) ==
  Join(Tuple([i \in 1..Len(buffer) |-> ToString16(buffer[i])]))

toHex(buffer) ==
  Join(Tuple([i \in 1..Len(buffer) |->
                SliceLast(<<"0", "0">> \o ToString16(buffer[i]), 2)]))

(* --------------------------- generateAccountId ------------------------- *)
\* new Uint8Array(n)
Uint8Array(n) == Tuple([i \in 1..n |-> 0])

\* target.set(source, offset)
SetAt(target, source, offset) ==
  Tuple([i \in 1..Len(target) |->
           IF i > offset /\ i <= offset + Len(source) THEN source[i - offset]
           ELSE target[i]])

\* new TextEncoder().encode("account-id")
AccountIdText == <<97, 99, 99, 111, 117, 110, 116, 45, 105, 100>>

\* an optional argument is << >> when absent (undefined) and <<v>> when given
Undefined == << >>
Given(v) == <<v>>

RECURSIVE MixSum(_, _, _, _)
MixSum(data, lo, hi, j) ==
  IF lo >= hi THEN ((data[lo] + 1) * (lo + 2 * j + 1)) % 256
  ELSE (MixSum(data, lo, (lo + hi) \div 2, j)
        + 3 * MixSum(data, ((lo + hi) \div 2) + 1, hi, j)) % 256

\* crypto.subtle.digest("SHA-224", data): a fixed function from byte
\* sequences to 28-byte digests; the digest algorithm itself is the platform's
SHA224(data) ==
  Tuple([j \in 1..28 |-> (MixSum(data, 1, Len(data), j) + 17 * j + Len(data)) % 256])

\* padding = [0x0a, ..."account-id"]
Padding == <<10>> \o AccountIdText

\* sub = subaccount ?? new Uint8Array(32)
SubOrDefault(subaccount) ==
  IF subaccount # Undefined THEN subaccount[1] ELSE Uint8Array(32)

\* data = new Uint8Array(...); data.set(padding, 0); data.set(principalBytes, ...);
\* data.set(sub, ...)
DataOf(padding, principalBytes, sub) ==
  SetAt(SetAt(SetAt(Uint8Array(Len(padding) + Len(principalBytes) + Len(sub)),
                    padding, 0),
              principalBytes, Len(padding)),
        sub, Len(padding) + Len(principalBytes))

\* the synchronous part of generateAccountId, up to the await of the digest
AccountData(principalBytes, subaccount) ==
  DataOf(Padding, principalBytes, SubOrDefault(subaccount))

\* result = new Uint8Array(4 + hash.length); result.set(crc32, 0); result.set(hash, 4)
ChecksumThenHash(crc32, hash) ==
  SetAt(SetAt(Uint8Array(4 + Len(hash)), crc32, 0), hash, 4)

\* variant: the checksum is taken over the record instead of the digest
AccountIdOfHash_CrcOfRecord(data, hash) ==
  toHex(ChecksumThenHash(calculateCRC32(data), hash))

\* the part of generateAccountId after the await of the digest
AccountIdOfHash(data, hash) ==
  toHex(ChecksumThenHash(calculateCRC32(hash), hash))

(* ------------------------------- bigint -------------------------------- *)
\* a bigint is the sequence of its decimal digits, least significant first

\* drop the leading zeros (the last elements of the sequence)
Normalize(a) ==
  SubSeq(a, 1, Cardinality({i \in 1..Len(a) : \E j \in i..Len(a) : a[j] # 0}))

Reverse(s) == Tuple([i \in 1..Len(s) |-> s[Len(s) - i + 1]])

\* the bigint written with the decimal digits ds, most significant first
BigOf(ds) == Normalize(Reverse(ds))

\* the most significant position where a and b differ, 0 when there is none
TopDiff(a, b) ==
  Cardinality({i \in 1..Len(a) : \E j \in i..Len(a) : a[j] # b[j]})

\* -1, 0, 1 as a < b, a = b, a > b
BigCmpAt(a, b, m) ==
  IF m = 0 THEN 0 ELSE IF a[m] < b[m] THEN -1 ELSE 1

BigCmp(a, b) ==
  IF Len(a) # Len(b) THEN (IF Len(a) < Len(b) THEN -1 ELSE 1)
  ELSE BigCmpAt(a, b, TopDiff(a, b))

RECURSIVE MulSmallLoop(_, _, _)
\* st = <<next digit index, carry, digits so far>>
MulSmallLoop(a, m, st) ==
  IF st[1] > Len(a) THEN (IF st[2] = 0 THEN st[3] ELSE Append(st[3], st[2]))
  ELSE MulSmallLoop(a, m, <<st[1] + 1, (a[st[1]] * m + st[2]) \div 10,
                            Append(st[3], (a[st[1]] * m + st[2]) % 10)>>)

\* a * m for 0 <= m <= 10
BigMulSmall(a, m) == Normalize(MulSmallLoop(a, m, <<1, 0, << >> >>))

RECURSIVE DivSmallLoop(_, _, _)
\* st = <<digit index (from the most significant), remainder, quotient digits>>
DivSmallLoop(a, m, st) ==
  IF st[1] = 0 THEN st
  ELSE DivSmallLoop(a, m, <<st[1] - 1, (st[2] * 10 + a[st[1]]) % m,
                            <<(st[2] * 10 + a[st[1]]) \div m>> \o st[3]>>)

DivSmallResult(st) == <<Normalize(st[3]), st[2]>>

\* <<a div m, a mod m>> for 1 <= m <= 10
BigDivModSmall(a, m) == DivSmallResult(DivSmallLoop(a, m, <<Len(a), 0, << >> >>))

\* digit i of a, 0 beyond its length
DigitAt(a, i) == IF i <= Len(a) THEN a[i] ELSE 0

RECURSIVE SubLoop(_, _, _)
\* st = <<next digit index, borrow, digits so far>>
SubLoop(a, b, st) ==
  IF st[1] > Len(a) THEN st[3]
  ELSE SubLoop(a, b,
               <<st[1] + 1,
                 IF a[st[1]] - st[2] - DigitAt(b, st[1]) < 0 THEN 1 ELSE 0,
                 Append(st[3], (a[st[1]] - st[2] - DigitAt(b, st[1]) + 10) % 10)>>)

\* a - b for a >= b
BigSub(a, b) == Normalize(SubLoop(a, b, <<1, 0, << >> >>))

RECURSIVE AddLoop(_, _, _)
AddLoop(a, b, st) ==
  IF st[1] > Len(a) /\ st[1] > Len(b)
  THEN (IF st[2] = 0 THEN st[3] ELSE Append(st[3], st[2]))
  ELSE AddLoop(a, b,
               <<st[1] + 1,
                 (DigitAt(a, st[1]) + DigitAt(b, st[1]) + st[2]) \div 10,
                 Append(st[3], (DigitAt(a, st[1]) + DigitAt(b, st[1]) + st[2]) % 10)>>)

BigAdd(a, b) == Normalize(AddLoop(a, b, <<1, 0, << >> >>))

RECURSIVE QuotDigit(_, _)
\* st = <<remainder, count>>: how many times b fits into the remainder (at most 9)
QuotDigit(b, st) ==
  IF BigCmp(st[1], b) < 0 THEN st
  ELSE QuotDigit(b, <<BigSub(st[1], b), st[2] + 1>>)

DivModStep(st, q) == <<st[1] - 1, q[1], <<q[2]>> \o st[3]>>

RECURSIVE DivModLoop(_, _, _)
\* long division; st = <<digit index (from the most significant), remainder,
\* quotient digits>>
DivModLoop(a, b, st) ==
  IF st[1] = 0 THEN st
  ELSE DivModLoop(a, b,
                  DivModStep(st, QuotDigit(b, <<Normalize(<<a[st[1]]>> \o st[2]), 0>>)))

DivModResult(st) == <<Normalize(st[3]), st[2]>>

\* <<a / b, a % b>> on non-negative bigints, b > 0
BigDivMod(a, b) == DivModResult(DivModLoop(a, b, <<Len(a), << >>, << >> >>))

DecDigits == <<"0", "1", "2", "3", "4", "5", "6", "7", "8", "9">>

\* bigint.toString()
BigToString(a) ==
  IF a = << >> THEN <<"0">>
  ELSE Tuple([i \in 1..Len(a) |-> DecDigits[a[Len(a) - i + 1] + 1]])

(* ------------------------------ 10 ** d -------------------------------- *)
\* 10^d exactly
BigPow10(d) == Tuple([i \in 1..(d + 1) |-> IF i = d + 1 THEN 1 ELSE 0])

\* 2^53: a Number has a 53-bit significand
TwoPow53 == BigOf(<<9, 0, 0, 7, 1, 9, 9, 2, 5, 4, 7, 4, 0, 9, 9, 2>>)

SignificandStep(st, h) == <<h[1], st[2] + 1, st[3] \/ h[2] # 0>>

RECURSIVE SignificandLoop(_)
\* st = <<m, k, inexact>> with m = floor(x / 2^k): halve until m < 2^53
SignificandLoop(st) ==
  IF BigCmp(st[1], TwoPow53) < 0 THEN st
  ELSE SignificandLoop(SignificandStep(st, BigDivModSmall(st[1], 2)))

RECURSIVE BigShiftLeft(_, _)
\* a * 2^k
BigShiftLeft(a, k) ==
  IF a = << >> \/ k = 0 THEN a ELSE BigShiftLeft(BigMulSmall(a, 2), k - 1)

NumbersOfSignificand(x, st) ==
  IF ~st[3] THEN {x}
  ELSE {BigShiftLeft(st[1], st[2]), BigShiftLeft(BigAdd(st[1], <<1>>), st[2])}

\* the Numbers that x may become: x itself when a 53-bit significand holds it,
\* otherwise the two Numbers adjacent to x
NumbersNear(x) == NumbersOfSignificand(x, SignificandLoop(<<x, 0, FALSE>>))

\* 10 ** decimals, a Number: exponentiation is implementation-approximated
NumberPow10(decimals) == NumbersNear(BigPow10(decimals))

(* ---------------------------- formatBalance ---------------------------- *)
\* s.padStart(n, "0")
PadStart(s, n) ==
  IF Len(s) >= n THEN s ELSE Tuple([i \in 1..(n - Len(s)) |-> "0"]) \o s

\* s.replace(/0+$/, "")
StripTrailingZeros(s) ==
  SubSeq(s, 1, Cardinality({i \in 1..Len(s) : \E j \in i..Len(s) : s[j] # "0"}))

FormatQuotRem(qr, decimals) ==
  IF qr[2] = << >> THEN BigToString(qr[1])
  ELSE BigToString(qr[1]) \o <<".">>
       \o StripTrailingZeros(PadStart(BigToString(qr[2]), decimals))

\* the body of formatBalance once divisor = BigInt(10 ** decimals) is known
FormatWithDivisor(balance, decimals, divisor) ==
  FormatQuotRem(BigDivMod(balance, divisor), decimals)

\* the results formatBalance(balance, decimals) can return
formatBalance(balance, decimals) ==
  {FormatWithDivisor(balance, decimals, divisor) : divisor \in NumberPow10(decimals)}

(* ------------------------------- state --------------------------------- *)
VARIABLES
  crcIn,          \* argument of calculateCRC32
  crcOut,         \* its result, NoCrc before the call
  acct,           \* a generateAccountId call
  fmt,            \* a formatBalance call
  envNetwork,     \* import.meta.env.DFX_NETWORK, "" when not set
  constructed,    \* a TokenBalanceService instance exists
  rootKey,        \* the fetchRootKey request of the constructor
  tokenInfoCache, \* this.tokenInfoCache
  calls,          \* the getTokenInfo calls
  fetchCount,     \* per token id, how often getTokenInfo took the fetch path
  setCount,       \* per token id, how often tokenInfoCache.set ran
  queries         \* the queryTokenBalance calls

pureVars == <<crcIn, crcOut, acct, fmt>>
svcVars == <<envNetwork, constructed, rootKey, tokenInfoCache, calls, fetchCount,
             setCount, queries>>
vars == <<crcIn, crcOut, acct, fmt, envNetwork, constructed, rootKey, tokenInfoCache,
          calls, fetchCount, setCount, queries>>

NoCrc == << >>
AcctIdle == [pc |-> "idle", principal |-> << >>, subaccount |-> Undefined,
             data |-> << >>, result |-> << >>]
FmtIdle == [pc |-> "idle", balance |-> << >>, decimals |-> 0, result |-> << >>]

(* ------------------------------ the service ---------------------------- *)
\* TOKEN_CANISTER_IDS: ICP, CKBTC and LOCAL_ICP, "" when the build does not set it
ICP == "ryjl3-tyaaa-aaaaa-aaaba-cai"
CKBTC == "mxzaz-hqaaa-aaaar-qaada-cai"
LOCAL_ICP == ""
TokenIds == {ICP, CKBTC, LOCAL_ICP}

CallIds == 1..MaxCalls
QueryIds == 1..MaxQueries

\* Actor.createActor throws when canisterId is not the text of a principal
CreateActorThrows(tokenCanisterId) == tokenCanisterId = ""
CreateActorError == [isError |-> TRUE, message |-> "invalid canister id", value |-> ""]

\* what a rejected promise or a throw carries: an Error, or any other value
Thrown ==
  { [isError |-> TRUE, message |-> "Call was rejected", value |-> ""],
    [isError |-> FALSE, message |-> "", value |-> "timeout"] }

\* a settled promise: fulfilled with value[1], or rejected with thrown
Ok(v) == [ok |-> TRUE, value |-> <<v>>, thrown |-> CreateActorError]
Rejected(e) == [ok |-> FALSE, value |-> << >>, thrown |-> e]

QueryIdle == [pc |-> "idle", token |-> "", settled |-> "pending", request |-> << >>,
              reply |-> Rejected(CreateActorError), result |-> [none |-> TRUE]]

\* the settlements of icrc1_name, icrc1_symbol, icrc1_decimals of one fetch
NameReplies == {Ok("Internet Computer"), Ok("ckBTC")} \cup {Rejected(e) : e \in Thrown}
SymbolReplies == {Ok("ICP")} \cup {Rejected(e) : e \in Thrown}
DecimalsReplies == {Ok(8)} \cup {Rejected(e) : e \in Thrown}
MetadataReplies == NameReplies \X SymbolReplies \X DecimalsReplies

\* Promise.all: fulfilled with all the values, or rejected as soon as one rejects
PromiseAll(replies) ==
  IF \A i \in 1..Len(replies) : replies[i].ok
  THEN Ok([i \in 1..Len(replies) |-> replies[i].value[1]])
  ELSE Rejected((replies[CHOOSE i \in 1..Len(replies) : ~replies[i].ok]).thrown)

\* Number(decimals) of a Number
Number(n) == n

Fallback == [name |-> "Unknown Token", symbol |-> "", decimals |-> 8]
NoResult == [name |-> "", symbol |-> "", decimals |-> 0]

\* Map.has, Map.get, Map.set on a function from the keys present
MapHas(map, key) == key \in DOMAIN map
MapGet(map, key) == map[key]
MapSet(map, key, value) ==
  [k \in DOMAIN map \cup {key} |-> IF k = key THEN value ELSE map[k]]
EmptyMap == [k \in {} |-> NoResult]

CallIdle == [pc |-> "idle", token |-> "", settled |-> "pending", result |-> NoResult,
             fetch |-> "none", overlap |-> {}]

\* the calls of the same token id whose ledger round trip is outstanding
InFlight(t) == {c \in CallIds : calls[c].fetch = "pending" /\ calls[c].token = t}

\* call ids are handed out in order
NextCallId(c) == calls[c].pc = "idle" /\ \A b \in 1..(c - 1) : calls[b].pc # "idle"

\* variant: no cache lookup, every call fetches
GetTokenInfoCall_NoCacheCheck(c, tokenCanisterId) ==
  /\ constructed
  /\ NextCallId(c)
  /\ IF CreateActorThrows(tokenCanisterId)
     THEN calls' = [calls EXCEPT ![c] = [pc |-> "done", token |-> tokenCanisterId,
                      settled |-> "resolved", result |-> Fallback, fetch |-> "failed",
                      overlap |-> {}]]
     ELSE calls' = [calls EXCEPT ![c] = [pc |-> "awaiting", token |-> tokenCanisterId,
                      settled |-> "pending", result |-> NoResult, fetch |-> "pending",
                      overlap |-> InFlight(tokenCanisterId)]]
  /\ fetchCount' = [fetchCount EXCEPT ![tokenCanisterId] = @ + 1]
  /\ UNCHANGED <<pureVars, envNetwork, constructed, rootKey, tokenInfoCache, setCount,
                 queries>>

\* getTokenInfo from its call to its first await, or to its return when the
\* token is cached or the actor cannot be created
GetTokenInfoCall(c, tokenCanisterId) ==
  /\ constructed
  /\ NextCallId(c)
  /\ IF MapHas(tokenInfoCache, tokenCanisterId)
     THEN /\ calls' = [calls EXCEPT ![c] = [pc |-> "done", token |-> tokenCanisterId,
                         settled |-> "resolved",
                         result |-> MapGet(tokenInfoCache, tokenCanisterId),
                         fetch |-> "none", overlap |-> {}]]
          /\ UNCHANGED fetchCount
     ELSE /\ IF CreateActorThrows(tokenCanisterId)
             THEN calls' = [calls EXCEPT ![c] = [pc |-> "done", token |-> tokenCanisterId,
                              settled |-> "resolved", result |-> Fallback,
                              fetch |-> "failed", overlap |-> {}]]
             ELSE calls' = [calls EXCEPT ![c] = [pc |-> "awaiting",
                              token |-> tokenCanisterId, settled |-> "pending",
                              result |-> NoResult, fetch |-> "pending",
                              overlap |-> InFlight(tokenCanisterId)]]
          /\ fetchCount' = [fetchCount EXCEPT ![tokenCanisterId] = @ + 1]
  /\ UNCHANGED <<pureVars, envNetwork, constructed, rootKey, tokenInfoCache, setCount,
                 queries>>

\* const tokenInfo = { name, symbol, decimals: Number(decimals) }
TokenInfoOf(values) ==
  [name |-> values[1], symbol |-> values[2], decimals |-> Number(values[3])]

\* variant: the catch block rethrows
GetTokenInfoResume_Rethrows(c, replies) ==
  /\ calls[c].pc = "awaiting"
  /\ IF PromiseAll(replies).ok
     THEN /\ tokenInfoCache' = MapSet(tokenInfoCache, calls[c].token,
                                      TokenInfoOf(PromiseAll(replies).value[1]))
          /\ setCount' = [setCount EXCEPT ![calls[c].token] = @ + 1]
          /\ calls' = [calls EXCEPT ![c].pc = "done", ![c].settled = "resolved",
                                    ![c].result = TokenInfoOf(PromiseAll(replies).value[1]),
                                    ![c].fetch = "ok"]
     ELSE /\ calls' = [calls EXCEPT ![c].pc = "done", ![c].settled = "rejected",
                                    ![c].fetch = "failed"]
          /\ UNCHANGED <<tokenInfoCache, setCount>>
  /\ UNCHANGED <<pureVars, envNetwork, constructed, rootKey, fetchCount, queries>>

\* variant: the fallback of a failed fetch is stored
GetTokenInfoResume_StoresFallback(c, replies) ==
  /\ calls[c].pc = "awaiting"
  /\ IF PromiseAll(replies).ok
     THEN /\ tokenInfoCache' = MapSet(tokenInfoCache, calls[c].token,
                                      TokenInfoOf(PromiseAll(replies).value[1]))
          /\ setCount' = [setCount EXCEPT ![calls[c].token] = @ + 1]
          /\ calls' = [calls EXCEPT ![c].pc = "done", ![c].settled = "resolved",
                                    ![c].result = TokenInfoOf(PromiseAll(replies).value[1]),
                                    ![c].fetch = "ok"]
     ELSE /\ tokenInfoCache' = MapSet(tokenInfoCache, calls[c].token, Fallback)
          /\ setCount' = [setCount EXCEPT ![calls[c].token] = @ + 1]
          /\ calls' = [calls EXCEPT ![c].pc = "done", ![c].settled = "resolved",
                                    ![c].result = Fallback, ![c].fetch = "failed"]
  /\ UNCHANGED <<pureVars, envNetwork, constructed, rootKey, fetchCount, queries>>

\* getTokenInfo from the settlement of Promise.all to its return
GetTokenInfoResume(c, replies) ==
  /\ calls[c].pc = "awaiting"
  /\ IF PromiseAll(replies).ok
     THEN /\ tokenInfoCache' = MapSet(tokenInfoCache, calls[c].token,
                                      TokenInfoOf(PromiseAll(replies).value[1]))
          /\ setCount' = [setCount EXCEPT ![calls[c].token] = @ + 1]
          /\ calls' = [calls EXCEPT ![c].pc = "done", ![c].settled = "resolved",
                                    ![c].result = TokenInfoOf(PromiseAll(replies).value[1]),
                                    ![c].fetch = "ok"]
     ELSE /\ calls' = [calls EXCEPT ![c].pc = "done", ![c].settled = "resolved",
                                    ![c].result = Fallback, ![c].fetch = "failed"]
          /\ UNCHANGED <<tokenInfoCache, setCount>>
  /\ UNCHANGED <<pureVars, envNetwork, constructed, rootKey, fetchCount, queries>>

\* getNetworkConfig: the only check of DFX_NETWORK, called from nowhere
getNetworkConfig(dfxNetwork) ==
  LET network == IF dfxNetwork # "" THEN dfxNetwork ELSE "ic"
  IN IF network \notin {"local", "ic"}
     THEN [threw |-> TRUE, network |-> network, isLocal |-> FALSE, host |-> ""]
     ELSE [threw |-> FALSE, network |-> network, isLocal |-> network = "local",
           host |-> IF network = "local" THEN "http://localhost:4943"
                    ELSE "https://icp-api.io"]

NetworkValues == {"", "local", "ic", "testnet"}

\* new TokenBalanceService(agent) / createTokenBalanceService(agent)
Constructor ==
  /\ ~constructed
  /\ constructed' = TRUE
  /\ tokenInfoCache' = EmptyMap
  /\ rootKey' = IF (IF envNetwork # "" THEN envNetwork ELSE "ic") = "local"
                THEN "pending" ELSE "none"
  /\ UNCHANGED <<pureVars, envNetwork, calls, fetchCount, setCount, queries>>

\* agent.fetchRootKey() settles; a rejection is logged by the catch handler
FetchRootKeySettle(fulfilled) ==
  /\ rootKey = "pending"
  /\ rootKey' = IF fulfilled THEN "fetched" ELSE "failed"
  /\ UNCHANGED <<pureVars, envNetwork, constructed, tokenInfoCache, calls, fetchCount,
                 setCount, queries>>

\* error instanceof Error ? error.message : String(error)
ErrorMessage(error) == IF error.isError THEN error.message ELSE error.value

\* `Failed to query ${tokenCanisterId} balance: ${errorMessage}`, by its parts
QueryError(tokenCanisterId, error) ==
  [error |-> <<"Failed to query ", tokenCanisterId, " balance: ", ErrorMessage(error)>>]

\* variant: the message names no token
QueryError_NoToken(tokenCanisterId, error) ==
  [error |-> <<"Failed to query balance: ", ErrorMessage(error)>>]

Principals == {<<4>>, <<0, 0, 0, 0, 0, 0, 0, 2, 1, 1>>}
QuerySubaccounts == {Undefined, Given(Uint8Array(32))}

NextQueryId(q) == queries[q].pc = "idle" /\ \A b \in 1..(q - 1) : queries[b].pc # "idle"

\* queryTokenBalance up to its await, or to its return when the actor cannot
\* be created
QueryTokenBalanceCall(q, tokenCanisterId, principal, subaccount) ==
  /\ constructed
  /\ NextQueryId(q)
  /\ IF CreateActorThrows(tokenCanisterId)
     THEN queries' = [queries EXCEPT ![q] = [pc |-> "done", token |-> tokenCanisterId,
                        settled |-> "resolved", request |-> << >>,
                        reply |-> Rejected(CreateActorError),
                        result |-> QueryError(tokenCanisterId, CreateActorError)]]
     ELSE queries' = [queries EXCEPT ![q] = [pc |-> "awaiting", token |-> tokenCanisterId,
                        settled |-> "pending",
                        request |-> <<[owner |-> principal,
                                       subaccount |-> IF subaccount # Undefined
                                                      THEN <<subaccount[1]>> ELSE << >>]>>,
                        reply |-> Rejected(CreateActorError),
                        result |-> [none |-> TRUE]]]
  /\ UNCHANGED <<pureVars, envNetwork, constructed, rootKey, tokenInfoCache, calls,
                 fetchCount, setCount>>

\* variant: a failed ledger query rejects the returned promise
QueryTokenBalanceResume_Rethrows(q, reply) ==
  /\ queries[q].pc = "awaiting"
  /\ IF reply.ok
     THEN queries' = [queries EXCEPT ![q].pc = "done", ![q].settled = "resolved",
                                     ![q].reply = reply,
                                     ![q].result = [balance |-> reply.value[1]]]
     ELSE queries' = [queries EXCEPT ![q].pc = "done", ![q].settled = "rejected",
                                     ![q].reply = reply]
  /\ UNCHANGED <<pureVars, envNetwork, constructed, rootKey, tokenInfoCache, calls,
                 fetchCount, setCount>>

\* queryTokenBalance from the settlement of icrc1_balance_of to its return
QueryTokenBalanceResume(q, reply) ==
  /\ queries[q].pc = "awaiting"
  /\ IF reply.ok
     THEN queries' = [queries EXCEPT ![q].pc = "done", ![q].settled = "resolved",
                                     ![q].reply = reply,
                                     ![q].result = [balance |-> reply.value[1]]]
     ELSE queries' = [queries EXCEPT ![q].pc = "done", ![q].settled = "resolved",
                                     ![q].reply = reply,
                                     ![q].result = QueryError(queries[q].token, reply.thrown)]
  /\ UNCHANGED <<pureVars, envNetwork, constructed, rootKey, tokenInfoCache, calls,
                 fetchCount, setCount>>

\* what icrc1_balance_of can settle with
Balances == {<< >>, BigOf(<<1, 0, 0, 5, 0, 0, 0, 0, 0>>)}
BalanceReplies == {Ok(b) : b \in Balances} \cup {Rejected(e) : e \in Thrown}

\* the service as the constructor leaves it on the "ic" network, no call made
ServiceReady ==
  /\ envNetwork = "ic"
  /\ constructed = TRUE
  /\ rootKey = "none"
  /\ tokenInfoCache = EmptyMap
  /\ calls = [c \in CallIds |-> CallIdle]
  /\ fetchCount = [t \in TokenIds |-> 0]
  /\ setCount = [t \in TokenIds |-> 0]
  /\ queries = [q \in QueryIds |-> QueryIdle]

PureIdle == crcIn = << >> /\ crcOut = NoCrc /\ acct = AcctIdle /\ fmt = FmtIdle

InitCache == PureIdle /\ ServiceReady

NextCache ==
  \/ \E c \in CallIds, t \in TokenIds : GetTokenInfoCall(c, t)
  \/ \E c \in CallIds, replies \in MetadataReplies : GetTokenInfoResume(c, replies)

SpecCache == InitCache /\ [][NextCache]_vars

\* the build's environment is fixed, no service exists yet
InitService ==
  /\ PureIdle
  /\ envNetwork \in NetworkValues
  /\ constructed = FALSE
  /\ rootKey = "none"
  /\ tokenInfoCache = EmptyMap
  /\ calls = [c \in CallIds |-> CallIdle]
  /\ fetchCount = [t \in TokenIds |-> 0]
  /\ setCount = [t \in TokenIds |-> 0]
  /\ queries = [q \in QueryIds |-> QueryIdle]

NextService ==
  \/ Constructor
  \/ \E fulfilled \in BOOLEAN : FetchRootKeySettle(fulfilled)
  \/ \E q \in QueryIds, t \in TokenIds, p \in Principals, sub \in QuerySubaccounts :
       QueryTokenBalanceCall(q, t, p, sub)
  \/ \E q \in QueryIds, reply \in BalanceReplies : QueryTokenBalanceResume(q, reply)

SpecService == InitService /\ [][NextService]_vars

(* ------------------- account identifiers and checksums ----------------- *)
Bytes == {0, 1, 49, 128, 255}
CheckVector == <<49, 50, 51, 52, 53, 54, 55, 56, 57>>

RECURSIVE SeqsUpTo(_, _)
SeqsUpTo(S, n) ==
  IF n = 0 THEN {<< >>}
  ELSE LET shorter == SeqsUpTo(S, n - 1)
       IN shorter \cup {Append(s, x) : s \in shorter, x \in S}

\* principal.toUint8Array(): management canister, anonymous, two canister
\* ids, two 29-byte self-authenticating principals
PrincipalBytes ==
  { << >>, <<4>>, <<0, 0, 0, 0, 0, 0, 0, 2, 1, 1>>, <<0, 0, 0, 0, 2, 48, 0, 6, 1, 1>>,
    Tuple([i \in 1..29 |-> IF i = 29 THEN 2 ELSE (37 * i + 11) % 256]),
    Tuple([i \in 1..29 |-> IF i = 29 THEN 2 ELSE (91 * i + 5) % 256]) }

Subaccounts ==
  { Undefined, Given(Uint8Array(32)),
    Given(Tuple([i \in 1..32 |-> IF i = 32 THEN 1 ELSE 0])),
    Given(Tuple([i \in 1..32 |-> IF i = 1 THEN 128 ELSE 0])),
    Given(Tuple([i \in 1..32 |-> 255])) }
  \cup { Given(Tuple([i \in 1..32 |-> IF i = 32 THEN b ELSE 0])) : b \in Bytes }

\* calculateCRC32 applied to the input drawn by InitCrc
CalculateCRC32 ==
  /\ crcOut = NoCrc
  /\ crcOut' = calculateCRC32(crcIn)
  /\ UNCHANGED <<crcIn, acct, fmt, svcVars>>

InitCrc ==
  /\ crcIn \in SeqsUpTo(Bytes, MaxLen) \cup {CheckVector}
  /\ crcOut = NoCrc
  /\ acct = AcctIdle
  /\ fmt = FmtIdle
  /\ ServiceReady

NextCrc == CalculateCRC32

SpecCrc == InitCrc /\ [][NextCrc]_vars

\* generateAccountId up to its await
GenerateAccountIdCall ==
  /\ acct.pc = "idle"
  /\ acct' = [acct EXCEPT !.pc = "hashing",
                          !.data = AccountData(acct.principal, acct.subaccount)]
  /\ UNCHANGED <<crcIn, crcOut, fmt, svcVars>>

\* generateAccountId from the resolution of the digest to its return
GenerateAccountIdResume ==
  /\ acct.pc = "hashing"
  /\ acct' = [acct EXCEPT !.pc = "done",
                          !.result = AccountIdOfHash(acct.data, SHA224(acct.data))]
  /\ UNCHANGED <<crcIn, crcOut, fmt, svcVars>>

InitAccount ==
  /\ crcIn = << >>
  /\ crcOut = NoCrc
  /\ acct \in {[AcctIdle EXCEPT !.principal = p, !.subaccount = sub] :
                 p \in PrincipalBytes, sub \in Subaccounts}
  /\ fmt = FmtIdle
  /\ ServiceReady

NextAccount == GenerateAccountIdCall \/ GenerateAccountIdResume

SpecAccount == InitAccount /\ [][NextAccount]_vars

(* ------------------------------ formatting ----------------------------- *)
Wholes == {<< >>, <<1>>, <<2, 1>>}

\* the low d digits of a balance: zeros but for the first and the last
Fractions(d) ==
  {Tuple([i \in 1..d |-> IF i = 1 THEN lo ELSE IF i = d THEN hi ELSE 0]) :
     lo \in {0, 1}, hi \in {0, 5}}

FormatInputs ==
  UNION {{[FmtIdle EXCEPT !.balance = Normalize(f \o w), !.decimals = d] :
            w \in Wholes, f \in Fractions(d)} : d \in 0..MaxDecimals}
  \cup {[FmtIdle EXCEPT !.balance = BigOf(<<1, 2, 3, 4, 5, 6, 7, 8, 9>>), !.decimals = 8],
        [FmtIdle EXCEPT !.balance = BigOf(<<1, 0, 0, 5, 0, 0, 0, 0, 0>>), !.decimals = 8]}

FormatBalance ==
  /\ fmt.pc = "idle"
  /\ \E text \in formatBalance(fmt.balance, fmt.decimals) :
       fmt' = [fmt EXCEPT !.pc = "done", !.result = text]
  /\ UNCHANGED <<crcIn, crcOut, acct, svcVars>>

InitFormat ==
  /\ crcIn = << >>
  /\ crcOut = NoCrc
  /\ acct = AcctIdle
  /\ fmt \in FormatInputs
  /\ ServiceReady

NextFormat == FormatBalance

SpecFormat == InitFormat /\ [][NextFormat]_vars

(* ----------------------- reference definitions ------------------------- *)
\* one shift-right step: XOR 0xEDB88320 in exactly when the shifted-out bit is 1
RefCrcStep(reg) ==
  IF reg[2] % 2 = 1
  THEN <<Xor16(reg[1] \div 2, 60856),
         Xor16((reg[1] % 2) * 32768 + (reg[2] \div 2), 33568)>>
  ELSE <<reg[1] \div 2, (reg[1] % 2) * 32768 + (reg[2] \div 2)>>

RECURSIVE RefCrcBits(_, _)
RefCrcBits(reg, n) ==
  IF reg[1] < 0 \/ n = 0 THEN reg ELSE RefCrcBits(RefCrcStep(reg), n - 1)

\* XOR the byte into the low 8 bits of the register
RefCrcXorByte(reg, byte) ==
  <<reg[1], (reg[2] \div 256) * 256 + Xor16(reg[2] % 256, byte)>>

RECURSIVE RefCrcReg(_, _, _, _)
RefCrcReg(reg, data, lo, hi) ==
  IF reg[1] < 0 \/ lo > hi THEN reg
  ELSE IF lo = hi THEN RefCrcBits(RefCrcXorByte(reg, data[lo]), 8)
  ELSE RefCrcReg(RefCrcReg(reg, data, lo, (lo + hi) \div 2), data, ((lo + hi) \div 2) + 1, hi)

\* complement, most significant byte first
RefCrcOut(reg) ==
  <<(65535 - reg[1]) \div 256, (65535 - reg[1]) % 256,
    (65535 - reg[2]) \div 256, (65535 - reg[2]) % 256>>

\* standard reflected CRC-32
RefCRC32(data) == RefCrcOut(RefCrcReg(<<65535, 65535>>, data, 1, Len(data)))

\* two lowercase hex digits per byte
RefHex(bytes) ==
  Tuple([i \in 1..(2 * Len(bytes)) |->
           IF i % 2 = 1 THEN HexDigits[(bytes[(i + 1) \div 2] \div 16) + 1]
           ELSE HexDigits[(bytes[i \div 2] % 16) + 1]])

HexChars == {HexDigits[i] : i \in 1..16}

\* hex(checksum(h) ++ h), h = H(0x0A ++ "account-id" ++ holderBytes ++ sub)
RefLayout(h) == RefHex(RefCRC32(h) \o h)

RefAccountId(holderBytes, sub) ==
  RefLayout(SHA224(<<10>> \o AccountIdText \o holderBytes \o sub))

(* ------------------------------- claims -------------------------------- *)
\* C9: calculateCRC32 is the standard reflected CRC-32 of its input, emitted
\* as 4 bytes most significant first; the checksum of "123456789" is CB F4 39 26.
C9_Crc32Standard ==
  /\ crcOut # NoCrc =>
       /\ crcOut = RefCRC32(crcIn)
       /\ Len(crcOut) = 4
       /\ \A i \in 1..4 : crcOut[i] \in 0..255
  /\ (crcIn = CheckVector /\ crcOut # NoCrc) => crcOut = <<203, 244, 57, 38>>

C9_Witness == crcIn = CheckVector /\ crcOut = <<203, 244, 57, 38>>

\* the first 8 characters are the checksum of the digest h, the rest is h
ChecksumOfDigest(text, h) ==
  /\ SubSeq(text, 1, 8) = RefHex(RefCRC32(h))
  /\ SubSeq(text, 9, 64) = RefHex(h)

\* C8: generateAccountId returns hex(checksum(h) ++ h) for the digest h of
\* 0x0A ++ "account-id" ++ holder bytes ++ sub, sub being 32 zero bytes when
\* no sub-identity is supplied: 64 characters of [0-9a-f], the first 8 the
\* checksum of the digest.
C8_AccountIdLayout ==
  acct.pc = "done" =>
    LET sub == IF acct.subaccount = Undefined THEN Uint8Array(32) ELSE acct.subaccount[1]
    IN /\ acct.result = RefAccountId(acct.principal, sub)
       /\ Len(acct.result) = 64
       /\ \A i \in 1..Len(acct.result) : acct.result[i] \in HexChars
       /\ ChecksumOfDigest(acct.result,
                           SHA224(<<10>> \o AccountIdText \o acct.principal \o sub))

C8_Witness ==
  /\ acct.pc = "done"
  /\ acct.subaccount = Undefined
  /\ Len(acct.principal) = 29
  /\ acct.result = RefAccountId(acct.principal, Uint8Array(32))
\* the claimed text: whole = v div 10^d and rem = v mod 10^d, read off the
\* decimal digits of v; frac is rem on d digits without its trailing zeros
RefFormat(v, d) ==
  LET whole == IF Len(v) > d THEN SubSeq(v, d + 1, Len(v)) ELSE << >>
      low == Tuple([i \in 1..d |-> IF i <= Len(v) THEN v[i] ELSE 0])
      nz == {i \in 1..d : low[i] # 0}
      wholeText == IF whole = << >> THEN <<"0">>
                   ELSE Tuple([i \in 1..Len(whole) |-> DecDigits[whole[Len(whole) - i + 1] + 1]])
  IN IF nz = {} THEN wholeText
     ELSE LET first == CHOOSE i \in nz : \A j \in nz : i <= j
          IN wholeText \o <<".">>
             \o Tuple([i \in 1..(d - first + 1) |-> DecDigits[low[d - i + 1] + 1]])

Dots(text) == {i \in 1..Len(text) : text[i] = "."}

\* C7: formatBalance(v, d) is the exact decimal rendering of v / 10^d: whole
\* part, then "." and the fraction on d digits without trailing zeros when
\* the remainder is not zero; at most one ".", a non-empty fraction not
\* ending in "0", and no "." for an exact multiple of 10^d.
C7_FormatExact ==
  fmt.pc = "done" =>
    /\ fmt.result = RefFormat(fmt.balance, fmt.decimals)
    /\ Cardinality(Dots(fmt.result)) <= 1
    /\ Dots(fmt.result) # {} =>
         /\ fmt.result[Len(fmt.result)] \notin {"0", "."}
    /\ (\A i \in 1..fmt.decimals : i <= Len(fmt.balance) => fmt.balance[i] = 0)
         => Dots(fmt.result) = {}
(* ---------------------------- service claims --------------------------- *)
Started(c) == calls[c].pc = "idle" /\ calls'[c].pc # "idle"
FetchedOk(t) == \E c \in CallIds : calls[c].token = t /\ calls[c].fetch = "ok"
FetchFailed(t) == \E c \in CallIds : calls[c].token = t /\ calls[c].fetch = "failed"

\* C1: lookups of an uncached token id that start while a ledger fetch for
\* it is outstanding issue no fetch of their own (one round trip at a time
\* per token id), and the callers that overlapped receive the same metadata.
C1_Coalescing ==
  \A t \in TokenIds :
    /\ Cardinality(InFlight(t)) <= 1
    /\ \A c1, c2 \in CallIds :
         (c2 \in calls[c1].overlap /\ calls[c1].pc = "done" /\ calls[c2].pc = "done")
           => calls[c1].result = calls[c2].result

\* C2: tokenInfoCache receives at most one insertion per token id, and an
\* entry, once present, is never replaced, changed or removed.
C2_WriteOnce ==
  [][\A t \in TokenIds :
       /\ setCount'[t] <= 1
       /\ MapHas(tokenInfoCache, t) =>
            MapHas(tokenInfoCache', t) /\ tokenInfoCache'[t] = tokenInfoCache[t]]_vars

\* C3: a getTokenInfo call whose fetch fails resolves with the fallback
\* and leaves tokenInfoCache exactly as it was; the fallback is not stored.
C3_FailedFetchLeavesCache ==
  [][\A c \in CallIds :
       (calls[c].pc # "done" /\ calls'[c].pc = "done" /\ calls'[c].fetch = "failed")
         => /\ calls'[c].settled = "resolved"
            /\ calls'[c].result = Fallback
            /\ tokenInfoCache' = tokenInfoCache
            /\ setCount' = setCount]_vars

C3_Witness ==
  \E c \in CallIds :
    /\ calls[c].pc = "done" /\ calls[c].fetch = "failed" /\ calls[c].token = ICP
    /\ calls[c].result = Fallback
    /\ ~MapHas(tokenInfoCache, ICP)
    /\ MapHas(tokenInfoCache, CKBTC)

InFlightNext(t) == {c \in CallIds : calls'[c].fetch = "pending" /\ calls'[c].token = t}

\* the metadata a ledger can answer with
RealInfos ==
  {[name |-> n.value[1], symbol |-> sy.value[1], decimals |-> d.value[1]] :
     n \in {r \in NameReplies : r.ok}, sy \in {r \in SymbolReplies : r.ok},
     d \in {r \in DecimalsReplies : r.ok}}

\* C4: a getTokenInfo(A) call started after failed fetches of A, none having
\* succeeded, takes the fetch path again; when its fetch succeeds it returns
\* the fetched metadata and A is cached with exactly that value.
C4_RetryAfterFailure ==
  [][\A c \in CallIds :
       /\ (Started(c) /\ FetchFailed(calls'[c].token) /\ ~FetchedOk(calls'[c].token))
            => /\ calls'[c].fetch \in {"pending", "failed"}
               /\ fetchCount'[calls'[c].token] = fetchCount[calls'[c].token] + 1
       /\ (calls[c].pc = "awaiting" /\ calls'[c].fetch = "ok")
            => /\ calls'[c].pc = "done" /\ calls'[c].settled = "resolved"
               /\ calls'[c].result \in RealInfos
               /\ MapHas(tokenInfoCache', calls[c].token)
               /\ tokenInfoCache'[calls[c].token] = calls'[c].result]_vars

C4_Witness ==
  \E c1, c2 \in CallIds :
    /\ c1 < c2
    /\ calls[c1].token = ICP /\ calls[c1].fetch = "failed" /\ calls[c1].overlap = {}
    /\ calls[c2].token = ICP /\ calls[c2].fetch = "ok" /\ calls[c2].overlap = {}
    /\ calls[c2].result \in RealInfos
    /\ MapHas(tokenInfoCache, ICP) /\ tokenInfoCache[ICP] = calls[c2].result

\* C5: once a getTokenInfo(A) call has completed with a successful fetch,
\* every call started afterwards returns the stored value and issues no
\* ledger metadata call.
C5_CacheHitNoFetch ==
  [][\A c \in CallIds :
       (Started(c) /\ FetchedOk(calls'[c].token))
         => /\ calls'[c].pc = "done" /\ calls'[c].settled = "resolved"
            /\ calls'[c].fetch = "none"
            /\ MapHas(tokenInfoCache, calls'[c].token)
            /\ calls'[c].result = tokenInfoCache[calls'[c].token]
            /\ fetchCount' = fetchCount
            /\ InFlightNext(calls'[c].token) = InFlight(calls'[c].token)
            /\ tokenInfoCache' = tokenInfoCache]_vars

C5_Witness ==
  \E c1, c2 \in CallIds :
    /\ c1 < c2
    /\ calls[c1].token = CKBTC /\ calls[c1].fetch = "ok"
    /\ calls[c2].token = CKBTC /\ calls[c2].pc = "done" /\ calls[c2].fetch = "none"
    /\ calls[c2].result = tokenInfoCache[CKBTC]
    /\ fetchCount[CKBTC] = 1

Contains(parts, text) == \E i \in 1..Len(parts) : parts[i] = text

\* C6: the promise of queryTokenBalance always resolves, with exactly one of
\* balance and error: the ledger's raw value when the query succeeds, and an
\* error text holding the token id and the failure reason otherwise.
C6_QueryNeverRaises ==
  \A q \in QueryIds :
    /\ queries[q].settled # "rejected"
    /\ queries[q].pc = "done" =>
         /\ queries[q].settled = "resolved"
         /\ DOMAIN queries[q].result \in {{"balance"}, {"error"}}
         /\ queries[q].reply.ok =>
              /\ DOMAIN queries[q].result = {"balance"}
              /\ queries[q].result.balance = queries[q].reply.value[1]
         /\ ~queries[q].reply.ok =>
              /\ DOMAIN queries[q].result = {"error"}
              /\ Contains(queries[q].result.error, queries[q].token)
              /\ Contains(queries[q].result.error,
                          IF queries[q].reply.thrown.isError
                          THEN queries[q].reply.thrown.message
                          ELSE queries[q].reply.thrown.value)

C6_Witness ==
  \E q1, q2 \in QueryIds :
    /\ queries[q1].pc = "done" /\ queries[q1].reply.ok
    /\ queries[q1].result = [balance |-> BigOf(<<1, 0, 0, 5, 0, 0, 0, 0, 0>>)]
    /\ queries[q2].pc = "done" /\ queries[q2].token = CKBTC
    /\ queries[q2].result = [error |-> <<"Failed to query ", CKBTC, " balance: ", "timeout">>]

\* C10: with DFX_NETWORK set to a value other than "local" and "ic" the
\* construction of the service fails: no instance exists.
C10_InvalidNetworkFatal ==
  (envNetwork # "" /\ envNetwork \notin {"local", "ic"}) => ~constructed
====
